---- MODULE Spec2Model ----
(***************************************************************************)
(* A model of src/main.cpp: the composite password generator.              *)
(*                                                                         *)
(* A character is a one-character string, a std::string is a sequence of   *)
(* characters.  A generator object is a record [kind, len_]: kind names    *)
(* the dynamic class of the object, len_ is BasicPasswordGenerator::len_.  *)
(* The composite under study is the pair (generators_, eng_).              *)
(*                                                                         *)
(* std::mt19937 is modelled by a small deterministic engine over           *)
(* 0..EngMod-1: like the real one it is seeded once, from entropy, in the  *)
(* constructor (every seed is an initial state) and after that every draw  *)
(* is a function of the engine state.                                      *)
(***************************************************************************)
EXTENDS Integers, Sequences, FiniteSets

\* ---------------------------------------------------------------- bounds
\* Largest len handed to a leaf constructor.
MaxLen == 2
\* Largest number of generators added to the composite.
MaxGens == 2
\* Number of states of the modelled random engine.
EngMod == 29

VARIABLES
    generators_,  \* CompositePasswordGenerator::generators_ (line 109)
    eng_,         \* CompositePasswordGenerator::eng_ (line 107)
    op,           \* the member function called last
    status,       \* how that call ended: "ok", a thrown what(), or "crash"
    ret,          \* the std::string it returned (<<>> for void or a throw)
    password,     \* Generate's local of line 87 as the loop of 88-95 left it
    pc,           \* main's position (a line of main), "lib" outside main
    cout          \* what main wrote to std::cout

vars == <<generators_, eng_, op, status, ret, password, pc, cout>>

\* ------------------------------------------------------------- alphabets
DigitChars == <<"0", "1", "2", "3", "4", "5", "6", "7", "8", "9">>

SymbolChars ==
    <<"!", "@", "#", "$", "%", "^", "&", "*", "(", ")", "[", "]", "{", "}",
      "?", "<", ">">>

UpperChars ==
    <<"A", "B", "C", "D", "E", "F", "G", "H", "I", "J", "K", "L", "M", "N",
      "O", "P", "Q", "R", "S", "T", "U", "V", "X", "Y", "W", "Z">>

LowerChars ==
    <<"a", "b", "c", "d", "e", "f", "g", "h", "i", "j", "k", "l", "m", "n",
      "o", "p", "q", "r", "s", "t", "u", "v", "x", "y", "w", "z">>

\* Alphabets of leaf classes a user of the interface derives from
\* BasicPasswordGenerator: one empty, one non-empty.
EmptyChars == <<>>
ABChars == <<"A", "B">>

\* The terminator a std::string holds at index size().
NUL == "NUL"

\* What a read past the end of an empty std::string can yield.
StrayBytes == {NUL, "A"}

\* ------------------------------------------------------------ generators
DigitGenerator(len) == [kind |-> "Digit", len_ |-> len]
SymbolGenerator(len) == [kind |-> "Symbol", len_ |-> len]
UpperLetterGenerator(len) == [kind |-> "Upper", len_ |-> len]
LowerLetterGenerator(len) == [kind |-> "Lower", len_ |-> len]
\* A composite held as an element: its own generators_ and eng_ are never
\* reached through the outer composite, only its throwing accessors are.
CompositePasswordGenerator == [kind |-> "Composite", len_ |-> 0]
\* User-defined leaves (subclasses of BasicPasswordGenerator).
EmptyGenerator(len) == [kind |-> "Empty", len_ |-> len]
ABGenerator(len) == [kind |-> "AB", len_ |-> len]

Lengths == 0..MaxLen

\* The generators this repository can construct.
Generators ==
    {DigitGenerator(n) : n \in Lengths} \cup
    {SymbolGenerator(n) : n \in Lengths} \cup
    {UpperLetterGenerator(n) : n \in Lengths} \cup
    {LowerLetterGenerator(n) : n \in Lengths} \cup
    {CompositePasswordGenerator}

\* Generators of user-defined leaf classes.
CustomGenerators ==
    {EmptyGenerator(n) : n \in Lengths} \cup {ABGenerator(n) : n \in Lengths}

IsLeaf(g) == g.kind # "Composite"

\* PasswordGenerator::AllowedChars on a leaf.
AllowedChars(g) ==
    CASE g.kind = "Digit" -> DigitChars
      [] g.kind = "Symbol" -> SymbolChars
      [] g.kind = "Upper" -> UpperChars
      [] g.kind = "Lower" -> LowerChars
      [] g.kind = "AB" -> ABChars
      [] g.kind = "Empty" -> EmptyChars

\* BasicPasswordGenerator::Length.
Length(g) == g.len_

\* ---------------------------------------------------------- random engine
\* One call of eng_(): the next engine state, which is also its output.
EngNext(e) == (7 * e + 3) % EngMod

RECURSIVE EngAfter(_, _)
\* The engine state after n calls.
EngAfter(e, n) == IF n = 0 THEN e ELSE EngAfter(EngNext(e), n - 1)

\* std::uniform_int_distribution<>(a, b) applied to an engine output.
Ud(a, b, e) == a + (e % (b - a + 1))

\* The upper bound of the index distribution of line 90.
UdMax_OffByOne(chars) == Len(chars)
UdMax(chars) == Len(chars) - 1

\* chars[k] of a std::string (0-based): index size() holds the terminator.
CharAt(chars, k) == IF k < Len(chars) THEN chars[k + 1] ELSE NUL

\* The number of iterations of the loop of line 92 for generator g.
Draws_Inclusive(g) == Length(g) + 1
Draws(g) == Length(g)

RECURSIVE DrawRun(_, _, _, _)
\* The inner loop of lines 92-94: n draws from chars appended to pw.
DrawRun(chars, n, pw, e) ==
    IF n = 0
    THEN [password |-> pw, eng |-> e]
    ELSE LET e1 == EngNext(e)
         IN  DrawRun(chars, n - 1,
                     Append(pw, CharAt(chars, Ud(0, UdMax(chars), e1))), e1)

Swap(s, i, j) == [s EXCEPT ![i] = s[j], ![j] = s[i]]

RECURSIVE ShuffleFrom(_, _, _)
\* std::shuffle from position i on: element i is swapped with a uniformly
\* drawn element of 1..i, then i+1, and so on to the end.
ShuffleFrom(pw, i, e) ==
    IF i > Len(pw)
    THEN [password |-> pw, eng |-> e]
    ELSE LET e1 == EngNext(e)
         IN  ShuffleFrom(Swap(pw, i, 1 + Ud(0, i - 1, e1)), i + 1, e1)

\* A shuffle that copies instead of swapping.
Shuffle_Copies(pw, e) ==
    [password |-> [k \in DOMAIN pw |-> pw[1 + Ud(0, Len(pw) - 1, EngAfter(e, k))]],
     eng |-> EngAfter(e, Len(pw))]
\* A shuffle that draws before it looks at the range.
Shuffle_DrawsFirst(pw, e) == ShuffleFrom(pw, 2, EngNext(e))
\* std::shuffle(begin(password), end(password), eng_) of line 97.
Shuffle(pw, e) == ShuffleFrom(pw, 2, e)

\* ---------------------------------------------------------------- Generate
\* An exception that hands back what was drawn so far.
Thrown_Partial(pw, e) ==
    [status |-> "ok", password |-> pw, ret |-> pw, eng |-> e]
\* The exception of line 116 leaving Generate at line 89: the local password
\* is destroyed, nothing is returned, eng_ stays as the draws left it.
Thrown(pw, e) ==
    [status |-> "not implemented", password |-> pw, ret |-> <<>>, eng |-> e]

RECURSIVE GenerateLoop(_, _, _, _)
\* The loop of lines 88-95 from element i on, then lines 97-99: the set of
\* ways the call can end.  It is a single way except where the code has
\* undefined behaviour: an empty chars makes line 90 build
\* uniform_int_distribution<>(0, -1), whose precondition a <= b is broken, so
\* the build may abort there or carry on and read past the end of chars.
GenerateLoop(gens, i, pw, e) ==
    IF i > Len(gens)
    THEN LET s == Shuffle(pw, e)
         IN  {[status |-> "ok", password |-> pw, ret |-> s.password,
               eng |-> s.eng]}
    ELSE IF ~IsLeaf(gens[i])
    THEN {Thrown(pw, e)}
    ELSE LET chars == AllowedChars(gens[i])
             n == Draws(gens[i])
         IN  IF Len(chars) = 0
             THEN {[status |-> "crash", password |-> pw, ret |-> <<>>,
                    eng |-> e]}
                  \cup
                  UNION {GenerateLoop(gens, i + 1,
                                      pw \o [k \in 1..n |-> junk[k]],
                                      EngAfter(e, n))
                         : junk \in [1..n -> StrayBytes]}
             ELSE LET r == DrawRun(chars, n, pw, e)
                  IN  GenerateLoop(gens, i + 1, r.password, r.eng)

\* A Generate that also empties the sequence it walked.
Generate_Consumes ==
    /\ \E o \in GenerateLoop(generators_, 1, <<>>, eng_) :
          /\ eng_' = o.eng
          /\ status' = o.status
          /\ ret' = o.ret
          /\ password' = o.password
    /\ op' = "Generate"
    /\ generators_' = <<>>
\* CompositePasswordGenerator::Generate (lines 86-100).
Generate ==
    /\ \E o \in GenerateLoop(generators_, 1, <<>>, eng_) :
          /\ eng_' = o.eng
          /\ status' = o.status
          /\ ret' = o.ret
          /\ password' = o.password
    /\ op' = "Generate"
    /\ UNCHANGED generators_

\* --------------------------------------------------------------------- Add
\* An Add that inserts at the front.
Add_Front(g) ==
    /\ generators_' = <<g>> \o generators_
    /\ op' = "Add"
    /\ status' = "ok"
    /\ ret' = <<>>
    /\ password' = <<>>
    /\ UNCHANGED eng_
\* CompositePasswordGenerator::Add (lines 102-104).
Add(g) ==
    /\ generators_' = Append(generators_, g)
    /\ op' = "Add"
    /\ status' = "ok"
    /\ ret' = <<>>
    /\ password' = <<>>
    /\ UNCHANGED eng_

\* ------------------------------------------------- unimplemented members
\* The call `name` ends in throw std::runtime_error("not implemented").
Throws(name) ==
    /\ op' = name
    /\ status' = "not implemented"
    /\ ret' = <<>>
    /\ password' = <<>>
    /\ UNCHANGED <<generators_, eng_>>

\* BasicPasswordGenerator::Generate (lines 32-34), called on element i
\* through a PasswordGenerator pointer the caller kept.
LeafGenerate(i) == IsLeaf(generators_[i]) /\ Throws("Basic::Generate")

\* A leaf Add that stores the length of its argument.
LeafAdd_Stores(i, g) ==
    /\ IsLeaf(generators_[i])
    /\ generators_' = [generators_ EXCEPT ![i].len_ = g.len_]
    /\ op' = "Basic::Add"
    /\ status' = "ok"
    /\ ret' = <<>>
    /\ password' = <<>>
    /\ UNCHANGED eng_
\* BasicPasswordGenerator::Add (lines 36-38) called on element i with g.
LeafAdd(i, g) == IsLeaf(generators_[i]) /\ Throws("Basic::Add")

\* CompositePasswordGenerator::Length (lines 111-113).
CompositeLength == Throws("Composite::Length")

\* CompositePasswordGenerator::AllowedChars (lines 115-117).
CompositeAllowedChars == Throws("Composite::AllowedChars")

\* ------------------------------------------------------- the library, used
\* CompositePasswordGenerator::CompositePasswordGenerator (lines 79-84):
\* eng_ is seeded from std::random_device, generators_ is empty.
Constructed ==
    /\ generators_ = <<>>
    /\ eng_ \in 0..(EngMod - 1)
    /\ op = "ctor"
    /\ status = "ok"
    /\ ret = <<>>
    /\ password = <<>>
    /\ cout = <<>>

Init == Constructed /\ pc = "lib"

\* The process has not been ended by a crash.
Alive == status # "crash"

CallAdd ==
    /\ Alive
    /\ Len(generators_) < MaxGens
    /\ \E g \in Generators : Add(g)
    /\ UNCHANGED <<pc, cout>>

CallAddCustom ==
    /\ Alive
    /\ Len(generators_) < MaxGens
    /\ \E g \in CustomGenerators : Add(g)
    /\ UNCHANGED <<pc, cout>>

CallGenerate == Alive /\ Generate /\ UNCHANGED <<pc, cout>>

CallLeafGenerate ==
    /\ Alive
    /\ \E i \in DOMAIN generators_ : LeafGenerate(i)
    /\ UNCHANGED <<pc, cout>>

CallLeafAdd ==
    /\ Alive
    /\ \E i \in DOMAIN generators_ : \E g \in Generators : LeafAdd(i, g)
    /\ UNCHANGED <<pc, cout>>

CallCompositeLength == Alive /\ CompositeLength /\ UNCHANGED <<pc, cout>>

CallCompositeAllowedChars == Alive /\ CompositeAllowedChars /\ UNCHANGED <<pc, cout>>

Next ==
    \/ CallAdd
    \/ CallGenerate
    \/ CallLeafGenerate
    \/ CallLeafAdd
    \/ CallCompositeLength
    \/ CallCompositeAllowedChars

\* The composite used with the classes of this repository.
Spec == Init /\ [][Next]_vars

NextExt == Next \/ CallAddCustom

\* The composite used with user-defined leaf classes as well.
SpecExt == Init /\ [][NextExt]_vars

\* -------------------------------------------------------------------- main
\* main after line 121.
InitMain == Constructed /\ pc = "122"

\* The generators main adds, in order.
MainConfig_Short ==
    <<SymbolGenerator(2), DigitGenerator(2), UpperLetterGenerator(2),
      LowerLetterGenerator(3)>>
MainConfig ==
    <<SymbolGenerator(2), DigitGenerator(2), UpperLetterGenerator(2),
      LowerLetterGenerator(4)>>

Main122 == pc = "122" /\ Add(MainConfig[1]) /\ pc' = "123" /\ UNCHANGED cout
Main123 == pc = "123" /\ Add(MainConfig[2]) /\ pc' = "124" /\ UNCHANGED cout
Main124 == pc = "124" /\ Add(MainConfig[3]) /\ pc' = "125" /\ UNCHANGED cout
Main125 == pc = "125" /\ Add(MainConfig[4]) /\ pc' = "127" /\ UNCHANGED cout

\* Line 127; an exception leaving main ends the program in std::terminate.
Main127 ==
    /\ pc = "127"
    /\ Generate
    /\ pc' = IF status' = "ok" THEN "128" ELSE "terminate"
    /\ UNCHANGED cout

\* Line 128, then main returns 0.
Main128 ==
    /\ pc = "128"
    /\ cout' = ret
    /\ pc' = "exit 0"
    /\ UNCHANGED <<generators_, eng_, op, status, ret, password>>

NextMain ==
    \/ Main122
    \/ Main123
    \/ Main124
    \/ Main125
    \/ Main127
    \/ Main128

\* The program.
SpecMain == InitMain /\ [][NextMain]_vars

\* ------------------------------------------------- vocabulary of the claims
RECURSIVE SumOfLengths(_)
SumOfLengths(gens) ==
    IF gens = <<>> THEN 0 ELSE gens[1].len_ + SumOfLengths(Tail(gens))

\* Where the run of element i starts in the accumulated password.
Offset(gens, i) == SumOfLengths(SubSeq(gens, 1, i - 1))

Alphabet(g) == {AllowedChars(g)[k] : k \in DOMAIN AllowedChars(g)}

CountIn(s, S) == Cardinality({k \in DOMAIN s : s[k] \in S})

Chars(s) == {s[k] : k \in DOMAIN s}

IsPermutationOf(a, b) ==
    /\ Len(a) = Len(b)
    /\ \A c \in Chars(a) \cup Chars(b) : CountIn(a, {c}) = CountIn(b, {c})

\* pw is the concatenation, in order, of one run per element of gens: the
\* run of element i has len_ characters, all of its alphabet.
IsRuns(pw, gens) ==
    /\ Len(pw) = SumOfLengths(gens)
    /\ \A i \in DOMAIN gens : \A k \in 1..gens[i].len_ :
          pw[Offset(gens, i) + k] \in Alphabet(gens[i])

HasComposite(gens) == \E i \in DOMAIN gens : gens[i].kind = "Composite"

HasEmptyAlphabet(gens) == \E i \in DOMAIN gens : gens[i].kind = "Empty"

AllNonEmptyLeaves(gens) == ~HasComposite(gens) /\ ~HasEmptyAlphabet(gens)

PairwiseDisjoint(gens) ==
    \A i, j \in DOMAIN gens :
        i # j => Alphabet(gens[i]) \cap Alphabet(gens[j]) = {}

Unimplemented ==
    {"Basic::Generate", "Basic::Add", "Composite::Length",
     "Composite::AllowedChars"}

\* ------------------------------------------------------------------ claims

\* C1: when every added class is a leaf with a non-empty alphabet, Generate
\* returns, and the string it returns is as long as the sum of the Length()
\* of the added classes.
C1_LengthIsSum ==
    (op = "Generate" /\ AllNonEmptyLeaves(generators_)) =>
        (status = "ok" /\ Len(ret) = SumOfLengths(generators_))

C1_Witness ==
    /\ op = "Generate"
    /\ Len(generators_) = 2
    /\ AllNonEmptyLeaves(generators_)
    /\ generators_[1].len_ = 1
    /\ generators_[2].len_ = 2
    /\ Len(ret) = 3

\* C2: the string Generate returns is a permutation of the accumulated
\* password, which is one run per class, in order, of exactly Length
\* characters of that class's alphabet; so with pairwise disjoint alphabets
\* the output holds exactly Length_i characters of the alphabet of class i.
C2_PermutationOfRuns ==
    (op = "Generate" /\ status = "ok") =>
        /\ IsPermutationOf(ret, password)
        /\ IsRuns(password, generators_)
        /\ PairwiseDisjoint(generators_) =>
              \A i \in DOMAIN generators_ :
                  CountIn(ret, Alphabet(generators_[i])) = generators_[i].len_

C2_Witness ==
    /\ op = "Generate"
    /\ status = "ok"
    /\ Len(generators_) = 2
    /\ PairwiseDisjoint(generators_)
    /\ generators_[1].len_ = 2
    /\ generators_[2].len_ = 2
    /\ ret # password
    /\ ret[1] \in Alphabet(generators_[2])

\* C3: every character Generate accumulates or returns is a character of
\* the alphabet of one of the added classes (a draw outside
\* [0, size-1] would read the terminator or beyond).
C3_CharsFromAlphabets ==
    op = "Generate" =>
        \A c \in Chars(ret) \cup Chars(password) :
            \E i \in DOMAIN generators_ :
                /\ generators_[i].kind # "Composite"
                /\ c \in Alphabet(generators_[i])

\* Both ends of the index range are drawn.
C3_Witness ==
    /\ op = "Generate"
    /\ status = "ok"
    /\ Len(generators_) = 1
    /\ generators_[1] = DigitGenerator(2)
    /\ Chars(ret) = {"0", "9"}

\* C4 (as claimed): Generate on a sequence holding a class with an empty
\* alphabet ends in an InvalidConfiguration error.
C4_FailsWithInvalidConfiguration ==
    (op = "Generate" /\ HasEmptyAlphabet(generators_)) =>
        status = "InvalidConfiguration"

\* C5: Generate on a composite with no class returns the empty string,
\* raises nothing and draws nothing from the engine.
C5_EmptyGivesEmpty ==
    [][(op' = "Generate" /\ generators_ = <<>>) =>
          (status' = "ok" /\ ret' = <<>> /\ eng_' = eng_)]_vars

C5_Witness ==
    /\ op = "Generate"
    /\ generators_ = <<>>
    /\ status = "ok"
    /\ ret = <<>>

\* C6: Add succeeds and appends its argument: the sequence grows by one at
\* its end and the classes added before keep place, alphabet and length.
C6_AddAppends ==
    [][op' = "Add" =>
          /\ status' = "ok"
          /\ Len(generators_') = Len(generators_) + 1
          /\ SubSeq(generators_', 1, Len(generators_)) = generators_
          /\ generators_'[Len(generators_')] \in Generators
          /\ eng_' = eng_]_vars

C6_Witness ==
    /\ op = "Add"
    /\ status = "ok"
    /\ Len(generators_) = 2
    /\ generators_[1] # generators_[2]

\* C7: Generate and Add on a leaf, Length and AllowedChars on the composite
\* end in "not implemented" and change neither a leaf nor the sequence.
C7_UnimplementedThrows ==
    [][op' \in Unimplemented =>
          /\ status' = "not implemented"
          /\ ret' = <<>>
          /\ generators_' = generators_
          /\ eng_' = eng_]_vars

C7_Witness ==
    /\ op = "Basic::Add"
    /\ status = "not implemented"
    /\ Len(generators_) = 2
    /\ generators_[2].len_ = 2

\* main has a next statement to run: it stands at one of its lines, and at
\* line 127 the call of Generate has a way to end.
MainCanStep ==
    /\ pc \in {"122", "123", "124", "125", "127", "128"}
    /\ pc = "127" => GenerateLoop(generators_, 1, <<>>, eng_) # {}

\* C8: main is never stuck before its end (exit code 0) and never ends in
\* an exception, and the password it gets and prints has 10 characters: 2
\* symbols, 2 digits, 2 uppercase and 4 lowercase letters, in some order.
C8_MainPassword ==
    /\ pc # "terminate"
    /\ pc # "exit 0" => MainCanStep
    /\ pc \in {"128", "exit 0"} =>
          /\ status = "ok"
          /\ Len(ret) = 10
          /\ CountIn(ret, Chars(SymbolChars)) = 2
          /\ CountIn(ret, Chars(DigitChars)) = 2
          /\ CountIn(ret, Chars(UpperChars)) = 2
          /\ CountIn(ret, Chars(LowerChars)) = 4
    /\ pc = "exit 0" => cout = ret

C8_Witness ==
    /\ pc = "exit 0"
    /\ Len(cout) = 10
    /\ cout # password
    /\ cout[1] \in Chars(LowerChars)

\* C9: a Generate call, whatever was called before it, leaves the sequence
\* as it is, advances the engine by the draws it made without re-seeding
\* it, and returns a permutation of one run per class added so far.
C9_GenerateRepeatable ==
    [][op' = "Generate" =>
          /\ generators_' = generators_
          /\ status' = "ok" =>
                /\ IsRuns(password', generators_)
                /\ IsPermutationOf(ret', password')
                /\ eng_' = EngAfter(eng_,
                                    SumOfLengths(generators_)
                                    + IF SumOfLengths(generators_) = 0
                                      THEN 0
                                      ELSE SumOfLengths(generators_) - 1)]_vars

C9_Witness ==
    /\ op = "Generate"
    /\ status = "ok"
    /\ Len(generators_) = 2
    /\ Len(ret) = 4
    /\ eng_ # 0

\* C10: a composite can be added as an element, and Generate on a sequence
\* holding one ends in "not implemented", returns nothing, not even what
\* it drew before reaching it, and leaves the sequence as it is.
C10_NestedCompositeThrows ==
    [][(op' = "Generate" /\ HasComposite(generators_)) =>
          /\ status' = "not implemented"
          /\ ret' = <<>>
          /\ generators_' = generators_]_vars

C10_Witness ==
    /\ op = "Generate"
    /\ status = "not implemented"
    /\ Len(generators_) = 2
    /\ generators_[2].kind = "Composite"
    /\ Len(password) = 2

====
